---- MODULE Spec2Model ----
(***************************************************************************)
(* Model of src/app/main.py: the mapping store (load_mappings), the        *)
(* display-name resolver (resolve_source_display_name and                  *)
(* format_source_display_name), the query orchestrator (query_gemini,      *)
(* extract_sources, get_system_prompt) and the submit path of main with    *)
(* its grouping, sorting and zero-citation retry.                          *)
(*                                                                         *)
(* Python strings are sequences of Unicode code points, so that split,     *)
(* replace, startswith, "in" and the lexical comparison used by sort are   *)
(* computed the way Python computes them.  Dictionaries are functions      *)
(* whose DOMAIN is the key set; a JSON object read from a file is the      *)
(* sequence of its (key, value) pairs in file order.                       *)
(***************************************************************************)
EXTENDS Integers, Sequences, FiniteSets, TLC

(***************************************************************************)
(* String literals of the program, as code points.                         *)
(***************************************************************************)
\* files/, main.py line 75,93,112
FILES_PREFIX == <<102,105,108,101,115,47>>
\* \u2696\ufe0f, main.py line 150
ICON_PENALTY == <<9878,65039>>
\* \U0001f4dc, main.py line 153
ICON_LAW == <<128220>>
\* \U0001f4e2, main.py line 156
ICON_ANN == <<128226>>
\* \U0001f4c4, main.py line 159,185
ICON_DOC == <<128196>>
\* \u88c1\u7f70\u6848\u4ef6, main.py line 149
TYPE_PENALTY == <<35009,32624,26696,20214>>
\* \u6cd5\u4ee4\u51fd\u91cb, main.py line 152
TYPE_LAW == <<27861,20196,20989,37323>>
\* \u91cd\u8981\u516c\u544a, main.py line 155
TYPE_ANN == <<37325,35201,20844,21578>>
\* \u672a\u77e5, main.py line 158,185,326
TYPE_UNKNOWN == <<26410,30693>>
\* \u672a\u77e5\u65e5\u671f, main.py line 143,185,335
UNKNOWN_DATE == <<26410,30693,26085,26399>>
\* \u672a\u77e5\u6587\u4ef6, main.py line 323
UNKNOWN_DOC == <<26410,30693,25991,20214>>
\* fsc_pen, main.py line 148
PFX_PEN == <<102,115,99,95,112,101,110>>
\* fsc_law, main.py line 151
PFX_LAW == <<102,115,99,95,108,97,119>>
\* fsc_unk, main.py line 154
PFX_UNK == <<102,115,99,95,117,110,107>>
\* fsc_ann, main.py line 154
PFX_ANN == <<102,115,99,95,97,110,110>>
\* law_, main.py line 327
TOK_LAW == <<108,97,119,95>>
\* ann_, main.py line 329
TOK_ANN == <<97,110,110,95>>
\* penalty, main.py line 331
TOK_PENALTY == <<112,101,110,97,108,116,121>>
\* insurance_bureau, main.py line 163
SRC_INSURANCE == <<105,110,115,117,114,97,110,99,101,95,98,117,114,101,97,117>>
\* securities_bureau, main.py line 164
SRC_SECURITIES == <<115,101,99,117,114,105,116,105,101,115,95,98,117,114,101,97,117>>
\* bank_bureau, main.py line 165
SRC_BANK == <<98,97,110,107,95,98,117,114,101,97,117>>
\* fsc, main.py line 166
SRC_FSC == <<102,115,99>>
\* \u4fdd\u96aa\u5c40, main.py line 163
ZH_INSURANCE == <<20445,38570,23616>>
\* \u8b49\u671f\u5c40, main.py line 164
ZH_SECURITIES == <<35657,26399,23616>>
\* \u9280\u884c\u5c40, main.py line 165
ZH_BANK == <<37504,34892,23616>>
\* \u91d1\u7ba1\u6703, main.py line 166
ZH_FSC == <<37329,31649,26371>>
\* \u8acb\u81f3\u5c11\u9078\u64c7\u4e00\u500b\u8cc7\u6599\u4f86\u6e90, main.py line 256,497
MSG_SELECT_SOURCE == <<35531,33267,23569,36984,25799,19968,20491,36039,26009,20358,28304>>
\* \u67e5\u8a62\u5931\u6557: , main.py line 302
MSG_QUERY_FAILED == <<26597,35426,22833,25943,58,32>>
\* \u8acb\u8a2d\u5b9a GEMINI_API_KEY, main.py line 458
MSG_NO_KEY == <<35531,35373,23450,32,71,69,77,73,78,73,95,65,80,73,95,75,69,89>>
\* \u4f60\u67e5\u8a62\u7684\u554f\u984c\u5728\u76ee\u524d\u7684\u6587\u4ef6\u5eab\u4e2d\u6c92\u6709\u5408\u9069\u7684\u7d50\u679c, main.py line 587 (its first clause)
MSG_NO_RESULTS == <<20320,26597,35426,30340,21839,38988,22312,30446,21069,30340,25991,20214,24235,20013,27794,26377,21512,36969,30340,32080,26524>>
\* "_", the delimiter of split('_') and of the labels, main.py line 174, 336
UNDERSCORE == 95
\* "/", the delimiter of uri.split('/'), main.py line 366
SLASH == 47
\* "-", looked for in the leading date, main.py line 337
HYPHEN == 45
\* " ", between the icon and the label, main.py line 177
SPACE == 32
\* len(parts[0]) == 10, main.py line 337
DATE_LEN == 10

(***************************************************************************)
(* Identifiers, templates, dates and texts the reference files, the        *)
(* endpoint and the user are drawn from.                                   *)
(***************************************************************************)
\* files/p1
GID_P1 == <<102,105,108,101,115,47,112,49>>
\* files/p2
GID_P2 == <<102,105,108,101,115,47,112,50>>
\* files/x1
GID_X1 == <<102,105,108,101,115,47,120,49>>
\* files/e1
GID_E1 == <<102,105,108,101,115,47,101,49>>
\* files/l1
GID_L1 == <<102,105,108,101,115,47,108,49>>
\* files/a1
GID_A1 == <<102,105,108,101,115,47,97,49>>
\* a2
GID_A2 == <<97,50>>
\* fsc_pen_1
DOC_PEN_1 == <<102,115,99,95,112,101,110,95,49>>
\* fsc_pen_2
DOC_PEN_2 == <<102,115,99,95,112,101,110,95,50>>
\* doc_x1
DOC_X1 == <<100,111,99,95,120,49>>
\* fsc_law_1
DOC_LAW_1 == <<102,115,99,95,108,97,119,95,49>>
\* fsc_law_2
DOC_LAW_2 == <<102,115,99,95,108,97,119,95,50>>
\* fsc_unk_1
DOC_UNK_1 == <<102,115,99,95,117,110,107,95,49>>
\* fsc_ann_1
DOC_ANN_1 == <<102,115,99,95,97,110,110,95,49>>
\* 2025-09-25_insurance_bureau_\u5168\u7403\u4eba\u58fd
NAME_PEN_1 == <<50,48,50,53,45,48,57,45,50,53,95,105,110,115,117,114,97,110,99,101,95,98,117,114,101,97,117,95,20840,29699,20154,22781>>
\* 2020-01-01_\u4fdd\u96aa\u5c40_\u5168\u7403\u4eba\u58fd
NAME_PEN_2 == <<50,48,50,48,45,48,49,45,48,49,95,20445,38570,23616,95,20840,29699,20154,22781>>
\* 2019-12-31_fsc
NAME_X1 == <<50,48,49,57,45,49,50,45,51,49,95,102,115,99>>
\* 2024-01-02_securities_bureau_law_amendment_fsc_law_1
NAME_LAW_1 == <<50,48,50,52,45,48,49,45,48,50,95,115,101,99,117,114,105,116,105,101,115,95,98,117,114,101,97,117,95,108,97,119,95,97,109,101,110,100,109,101,110,116,95,102,115,99,95,108,97,119,95,49>>
\* announcement
NAME_ANN_1 == <<97,110,110,111,117,110,99,101,109,101,110,116>>
\* 2025-09-25
DATE_PEN_1 == <<50,48,50,53,45,48,57,45,50,53>>
\* 2019-12-31
DATE_X1 == <<50,48,49,57,45,49,50,45,51,49>>
\* 2024-01-02
DATE_LAW_1 == <<50,48,50,52,45,48,49,45,48,50>>
\* 2023-05-05
DATE_ANN_1 == <<50,48,50,51,45,48,53,45,48,53>>
\* u/p1
URL_PEN_1 == <<117,47,112,49>>
\* u/l1
URL_LAW_1 == <<117,47,108,49>>
\* exam_bureau
SRC_OTHER == <<101,120,97,109,95,98,117,114,101,97,117>>
\* p1
RAW_SHORT_P1 == <<112,49>>
\* p2
RAW_SHORT_P2 == <<112,50>>
\* x1
RAW_SHORT_X1 == <<120,49>>
\* e1
RAW_SHORT_E1 == <<101,49>>
\* l1
RAW_SHORT_L1 == <<108,49>>
\* a1
RAW_SHORT_A1 == <<97,49>>
\* zz
RAW_NOT_MAPPED == <<122,122>>
\* 2019-01-02_insurance_bureau_ann_amendment_fsc_unk_20190102_1648
RAW_FILE_ANN == <<50,48,49,57,45,48,49,45,48,50,95,105,110,115,117,114,97,110,99,101,95,98,117,114,101,97,117,95,97,110,110,95,97,109,101,110,100,109,101,110,116,95,102,115,99,95,117,110,107,95,50,48,49,57,48,49,48,50,95,49,54,52,56>>
\* 2025-09-25_insurance_bureau_penalty_fsc_pen_20250925_0001
RAW_FILE_PEN == <<50,48,50,53,45,48,57,45,50,53,95,105,110,115,117,114,97,110,99,101,95,98,117,114,101,97,117,95,112,101,110,97,108,116,121,95,102,115,99,95,112,101,110,95,50,48,50,53,48,57,50,53,95,48,48,48,49>>
\* https://g/v1/files/p1
URI_P1 == <<104,116,116,112,115,58,47,47,103,47,118,49,47,102,105,108,101,115,47,112,49>>
\* ok
ANSWER_TEXT == <<111,107>>
\* 503
EXC_TEXT == <<53,48,51>>
\* q?
QUESTION_TEXT == <<113,63>>
\* key
API_KEY_TEXT == <<107,101,121>>
\* files/p3
GID_P3 == <<102,105,108,101,115,47,112,51>>
\* fsc_pen_3
DOC_PEN_3 == <<102,115,99,95,112,101,110,95,51>>
\* 2021-03-04_\u5168\u7403\u4eba\u58fd
NAME_PEN_3 == <<50,48,50,49,45,48,51,45,48,52,95,20840,29699,20154,22781>>
\* 2021-03-04
DATE_PEN_3 == <<50,48,50,49,45,48,51,45,48,52>>
\* interpretation
NAME_LAW_2 == <<105,110,116,101,114,112,114,101,116,97,116,105,111,110>>
\* 2022-02-02
DATE_LAW_2 == <<50,48,50,50,45,48,50,45,48,50>>
\* 2023-06-06_fsc
NAME_ANN_2 == <<50,48,50,51,45,48,54,45,48,54,95,102,115,99>>
\* p3
RAW_SHORT_P3 == <<112,51>>
\* a2
RAW_SHORT_A2 == <<97,50>>
\* files/p1
RAW_FULL_P1 == <<102,105,108,101,115,47,112,49>>

(***************************************************************************)
(* Python's str and dict operations.                                       *)
(***************************************************************************)
\* t occurs in s at position i
MatchAt(s, t, i) ==
  /\ i + Len(t) - 1 <= Len(s)
  /\ \A k \in 1..Len(t) : s[i + k - 1] = t[k]

\* s.startswith(t)
startswith(s, t) == MatchAt(s, t, 1)

\* t in s
contains(s, t) == \E i \in 1..(Len(s) - Len(t) + 1) : MatchAt(s, t, i)

\* c in s, for one character c
has_char(s, c) == \E i \in 1..Len(s) : s[i] = c

\* s.split(sep), for one character sep: never empty, split('') is ['']
RECURSIVE split(_, _)
split(s, sep) ==
  IF ~has_char(s, sep) THEN <<s>>
  ELSE LET i == CHOOSE i \in 1..Len(s) :
                   s[i] = sep /\ \A j \in 1..(i - 1) : s[j] # sep
       IN <<SubSeq(s, 1, i - 1)>> \o split(SubSeq(s, i + 1, Len(s)), sep)

\* s.replace(old, new), for a non-empty old: every occurrence, left to right
RECURSIVE replace(_, _, _)
replace(s, old, new) ==
  IF s = <<>> THEN <<>>
  ELSE IF MatchAt(s, old, 1)
       THEN new \o replace(SubSeq(s, Len(old) + 1, Len(s)), old, new)
       ELSE <<s[1]>> \o replace(Tail(s), old, new)

\* a < b on str: code point by code point, a proper prefix is smaller
RECURSIVE str_less(_, _)
str_less(a, b) ==
  IF b = <<>> THEN FALSE
  ELSE IF a = <<>> THEN TRUE
  ELSE IF a[1] # b[1] THEN a[1] < b[1]
  ELSE str_less(Tail(a), Tail(b))

\* d.get(k, default)
get(d, k, default) == IF k \in DOMAIN d THEN d[k] ELSE default

\* d[k] = v
put(d, k, v) == [x \in DOMAIN d \cup {k} |-> IF x = k THEN v ELSE d[x]]

\* d.update(e)
update(d, e) == [x \in DOMAIN d \cup DOMAIN e |-> IF x \in DOMAIN e THEN e[x] ELSE d[x]]

\* {}
EmptyDict == [x \in {} |-> <<>>]

\* dict(pairs): later pairs win, as json.load does for repeated keys
RECURSIVE dict_of(_)
dict_of(pairs) ==
  IF pairs = <<>> THEN EmptyDict
  ELSE put(dict_of(SubSeq(pairs, 1, Len(pairs) - 1)),
           pairs[Len(pairs)][1], pairs[Len(pairs)][2])

(***************************************************************************)
(* The reference files under data/.  A file is absent, unparseable         *)
(* (json.load raises) or holds a JSON object, given as its (key, value)    *)
(* pairs in file order.  A value of a unified-format file is a JSON object *)
(* (dict = TRUE, with its fields) or some other JSON value (dict = FALSE), *)
(* on which info.get raises AttributeError.                                *)
(***************************************************************************)
Absent == [state |-> "absent", entries |-> <<>>]
Malformed == [state |-> "malformed", entries |-> <<>>]
Parsed(entries) == [state |-> "ok", entries |-> entries]

Object(fields) == [dict |-> TRUE, fields |-> fields]
NotAnObject == [dict |-> FALSE, fields |-> EmptyDict]

\* penalties/gemini_id_mapping.json: {files/xxx: doc_id}
PenaltyAliasEntries ==
  << <<GID_P1, DOC_PEN_1>>, <<GID_P2, DOC_PEN_2>>, <<GID_P3, DOC_PEN_3>>,
     <<GID_X1, DOC_X1>>, <<GID_E1, <<>> >> >>

\* penalties/file_mapping.json: {doc_id: info}
PenaltyFileEntries ==
  << <<DOC_PEN_1, [display_name |-> NAME_PEN_1, date |-> DATE_PEN_1,
                   source |-> SRC_INSURANCE, original_url |-> URL_PEN_1]>>,
     <<DOC_PEN_2, [display_name |-> NAME_PEN_2, source |-> ZH_INSURANCE]>>,
     <<DOC_PEN_3, [display_name |-> NAME_PEN_3, date |-> DATE_PEN_3]>>,
     <<DOC_X1, [display_name |-> NAME_X1, date |-> DATE_X1, source |-> SRC_FSC]>> >>

\* law_interpretations/gemini_id_mapping_new.json: {doc_id: info}
LawEntries ==
  << <<DOC_LAW_1, Object([gemini_file_id |-> GID_L1, display_name |-> NAME_LAW_1,
                          date |-> DATE_LAW_1, source |-> SRC_SECURITIES,
                          original_url |-> URL_LAW_1])>>,
     <<DOC_LAW_2, Object([display_name |-> NAME_LAW_2, date |-> DATE_LAW_2])>> >>

\* the same file with a second value that is not a JSON object
LawEntriesBadValue ==
  << LawEntries[1], <<DOC_LAW_2, NotAnObject>> >>

\* announcements/gemini_id_mapping_new.json: {doc_id: info}
AnnEntries ==
  << <<DOC_UNK_1, Object([gemini_file_id |-> GID_A1, display_name |-> NAME_ANN_1,
                          date |-> DATE_ANN_1, source |-> SRC_OTHER])>>,
     <<DOC_ANN_1, Object([gemini_file_id |-> GID_A2, display_name |-> NAME_ANN_2,
                          source |-> SRC_FSC])>> >>

FileSystems ==
  [ penalties_gemini : {Absent, Malformed, Parsed(PenaltyAliasEntries)},
    penalties_file   : {Absent, Malformed, Parsed(PenaltyFileEntries)},
    law_gemini       : {Absent, Malformed, Parsed(LawEntries), Parsed(LawEntriesBadValue)},
    ann_gemini       : {Absent, Malformed, Parsed(AnnEntries)} ]

(***************************************************************************)
(* load_mappings: the four reads inside one try block.  A load state is    *)
(* the two tables built so far and whether an exception has left the try   *)
(* block (after which nothing more is read).                               *)
(***************************************************************************)
\* for full_id, doc_id in raw_mapping.items(): gemini_id_mapping[short_id] = doc_id
RECURSIVE legacy_alias_loop(_, _)
legacy_alias_loop(gemini_id_mapping, entries) ==
  IF entries = <<>> THEN gemini_id_mapping
  ELSE LET full_id == Head(entries)[1]
           doc_id == Head(entries)[2]
           short_id == replace(full_id, FILES_PREFIX, <<>>)
       IN legacy_alias_loop(put(gemini_id_mapping, short_id, doc_id), Tail(entries))

\* penalties/gemini_id_mapping.json
load_penalties_gemini(st, file) ==
  IF st.raised \/ file.state = "absent" THEN st
  ELSE IF file.state = "malformed" THEN [st EXCEPT !.raised = TRUE]
  ELSE [st EXCEPT !.gemini_id_mapping = legacy_alias_loop(@, file.entries)]

\* penalties/file_mapping.json: file_mapping.update(json.load(f))
load_penalties_file(st, file) ==
  IF st.raised \/ file.state = "absent" THEN st
  ELSE IF file.state = "malformed" THEN [st EXCEPT !.raised = TRUE]
  ELSE [st EXCEPT !.file_mapping = update(@, dict_of(file.entries))]

\* the info stored for a unified-format document: the five keys, '' by default
unified_info(fields) ==
  [ display_name |-> get(fields, "display_name", <<>>),
    date         |-> get(fields, "date", <<>>),
    source       |-> get(fields, "source", <<>>),
    category     |-> get(fields, "category", <<>>),
    original_url |-> get(fields, "original_url", <<>>) ]

\* for doc_id, info in raw_mapping.items(): ... ; info.get raises on a non-object
RECURSIVE unified_loop(_, _)
unified_loop(st, entries) ==
  IF entries = <<>> THEN st
  ELSE LET doc_id == Head(entries)[1]
           info == Head(entries)[2]
       IN IF ~info.dict THEN [st EXCEPT !.raised = TRUE]
          ELSE LET gemini_file_id == get(info.fields, "gemini_file_id", <<>>)
                   short_id == replace(gemini_file_id, FILES_PREFIX, <<>>)
                   g == IF gemini_file_id # <<>>
                        THEN put(st.gemini_id_mapping, short_id, doc_id)
                        ELSE st.gemini_id_mapping
                   f == put(st.file_mapping, doc_id, unified_info(info.fields))
               IN unified_loop([st EXCEPT !.gemini_id_mapping = g,
                                          !.file_mapping = f], Tail(entries))

\* law_interpretations/ and announcements/ gemini_id_mapping_new.json
load_unified(st, file) ==
  IF st.raised \/ file.state = "absent" THEN st
  ELSE IF file.state = "malformed" THEN [st EXCEPT !.raised = TRUE]
  ELSE unified_loop(st, file.entries)

\* the whole of load_mappings on a file system fs
load_mappings_result(fs) ==
  LET s0 == [gemini_id_mapping |-> EmptyDict, file_mapping |-> EmptyDict,
             raised |-> FALSE]
      s1 == load_penalties_gemini(s0, fs.penalties_gemini)
      s2 == load_penalties_file(s1, fs.penalties_file)
      s3 == load_unified(s2, fs.law_gemini)
      s4 == load_unified(s3, fs.ann_gemini)
  IN s4

(***************************************************************************)
(* State.                                                                  *)
(***************************************************************************)
VARIABLES
  files,              \* the reference files under data/
  api_key,            \* GEMINI_API_KEY as main reads it ('' when not set)
  pc,                 \* where the process is
  GEMINI_ID_MAPPING,  \* alias table: gemini short id -> doc_id
  FILE_MAPPING,       \* document table: doc_id -> info
  load_warned,        \* load_mappings called st.warning
  question,           \* the text area's content at submit
  selected_stores,    \* the collections passed to query_gemini
  calls,              \* the query_gemini calls made, in order, with their arguments
  requests,           \* the generate_content requests sent, in order
  results,            \* what the query_gemini calls returned, in order
  ui,                 \* the messages main has put on the page, in order
  groups,             \* the four citation lists main has rendered, in display order
  resolved            \* the last direct resolve_source_display_name call and its value

vars == <<files, api_key, pc, GEMINI_ID_MAPPING, FILE_MAPPING, load_warned, question,
          selected_stores, calls, requests, results, ui, groups, resolved>>

tables == <<GEMINI_ID_MAPPING, FILE_MAPPING>>

(***************************************************************************)
(* STORES and get_system_prompt.                                           *)
(***************************************************************************)
STORES ==
  [ penalties           |-> [store_id |-> "fileSearchStores/fscpenaltiesplaintext-4f87t5uexgui",
                             display_name |-> TYPE_PENALTY],
    law_interpretations |-> [store_id |-> "fileSearchStores/fsclawinterpretations-zz5pwrly06hz",
                             display_name |-> TYPE_LAW],
    announcements       |-> [store_id |-> "fileSearchStores/fscannouncements-o94q0kmo2zxb",
                             display_name |-> TYPE_ANN] ]

\* the base prompt followed by the guideline blocks of the selected stores, in fixed order
get_system_prompt(selected) ==
  <<"base_prompt">>
    \o (IF "penalties" \in selected THEN <<"penalties">> ELSE <<>>)
    \o (IF "law_interpretations" \in selected THEN <<"law_interpretations">> ELSE <<>>)
    \o (IF "announcements" \in selected THEN <<"announcements">> ELSE <<>>)

(***************************************************************************)
(* format_source_display_name and resolve_source_display_name.             *)
(***************************************************************************)
\* a variant of format_source_display_name without the "if not raw_name" test
format_without_empty_test(raw_name) ==
  LET parts == split(raw_name, UNDERSCORE)
      date == IF Len(parts[1]) = DATE_LEN /\ has_char(parts[1], HYPHEN)
              THEN parts[1] ELSE UNKNOWN_DATE
  IN TYPE_UNKNOWN \o <<UNDERSCORE>> \o date

format_source_display_name(raw_name) ==
  IF raw_name = <<>> THEN UNKNOWN_DOC
  ELSE LET source_type ==
             IF contains(raw_name, PFX_LAW) \/ contains(raw_name, TOK_LAW) THEN TYPE_LAW
             ELSE IF contains(raw_name, PFX_UNK) \/ contains(raw_name, TOK_ANN) THEN TYPE_ANN
             ELSE IF contains(raw_name, PFX_PEN) \/ contains(raw_name, TOK_PENALTY)
                  THEN TYPE_PENALTY
             ELSE TYPE_UNKNOWN
           parts == split(raw_name, UNDERSCORE)
           date == IF Len(parts[1]) = DATE_LEN /\ has_char(parts[1], HYPHEN)
                   THEN parts[1] ELSE UNKNOWN_DATE
       IN source_type \o <<UNDERSCORE>> \o date

source_map ==
  dict_of(<< <<SRC_INSURANCE, ZH_INSURANCE>>, <<SRC_SECURITIES, ZH_SECURITIES>>,
             <<SRC_BANK, ZH_BANK>>, <<SRC_FSC, ZH_FSC>> >>)

\* a variant of source_type_of that knows the announcement prefix fsc_unk only
source_type_without_ann(doc_id) ==
  IF startswith(doc_id, PFX_PEN) THEN <<TYPE_PENALTY, ICON_PENALTY>>
  ELSE IF startswith(doc_id, PFX_LAW) THEN <<TYPE_LAW, ICON_LAW>>
  ELSE IF startswith(doc_id, PFX_UNK) THEN <<TYPE_ANN, ICON_ANN>>
  ELSE <<TYPE_UNKNOWN, ICON_DOC>>

\* the (source_type, icon) chosen from the doc_id's prefix
source_type_of(doc_id) ==
  IF startswith(doc_id, PFX_PEN) THEN <<TYPE_PENALTY, ICON_PENALTY>>
  ELSE IF startswith(doc_id, PFX_LAW) THEN <<TYPE_LAW, ICON_LAW>>
  ELSE IF startswith(doc_id, PFX_UNK) \/ startswith(doc_id, PFX_ANN)
       THEN <<TYPE_ANN, ICON_ANN>>
  ELSE <<TYPE_UNKNOWN, ICON_DOC>>

\* f"{icon} {a}_{b}"
label(icon, a, b) == icon \o <<SPACE>> \o a \o <<UNDERSCORE>> \o b

\* the label built from a mapped document's info
mapped_label(doc_id, info) ==
  LET display_name == get(info, "display_name", <<>>)
      date == get(info, "date", UNKNOWN_DATE)
      source == get(info, "source", <<>>)
      source_type == source_type_of(doc_id)[1]
      icon == source_type_of(doc_id)[2]
      source_display == get(source_map, source, source)
      parts == split(display_name, UNDERSCORE)
  IN IF display_name # <<>> /\ startswith(doc_id, PFX_PEN) /\ Len(parts) >= 3
     THEN label(icon, parts[1], parts[3])
     ELSE IF display_name # <<>> /\ Len(parts) >= 2
     THEN label(icon, date, source_display)
     ELSE label(icon, source_type, date)

\* the lookup of the two tables: is raw_id mapped to a document with an info
is_mapped(raw_id) ==
  LET doc_id == get(GEMINI_ID_MAPPING, raw_id, <<>>)
  IN doc_id # <<>> /\ doc_id \in DOMAIN FILE_MAPPING

resolve_source_display_name(raw_id) ==
  LET doc_id == get(GEMINI_ID_MAPPING, raw_id, <<>>)
  IN IF is_mapped(raw_id)
     THEN LET info == FILE_MAPPING[doc_id]
          IN [ display_name |-> mapped_label(doc_id, info),
               source_type  |-> source_type_of(doc_id)[1],
               date         |-> get(info, "date", UNKNOWN_DATE),
               original_url |-> get(info, "original_url", <<>>) ]
     ELSE [ display_name |-> ICON_DOC \o <<SPACE>> \o format_source_display_name(raw_id),
            source_type  |-> TYPE_UNKNOWN,
            date         |-> UNKNOWN_DATE,
            original_url |-> <<>> ]

(***************************************************************************)
(* The endpoint's responses.  generate_content either raises or returns a  *)
(* response whose grounding metadata holds some chunks; a chunk has a      *)
(* retrieved_context or not, and its context a title and a uri ('' when    *)
(* missing or empty: the code treats both alike).                          *)
(***************************************************************************)
MaxChunks == 2

Chunk(title, uri) == [retrieved_context |-> TRUE, title |-> title, uri |-> uri]

Chunks ==
  { Chunk(RAW_SHORT_P1, <<>>), Chunk(RAW_SHORT_P2, <<>>), Chunk(RAW_SHORT_L1, <<>>),
    Chunk(RAW_FULL_P1, <<>>), Chunk(<<>>, URI_P1),
    [retrieved_context |-> FALSE, title |-> <<>>, uri |-> <<>>] }

Raises == [raises |-> TRUE, text |-> EXC_TEXT, chunks |-> <<>>]

Responses ==
  {Raises} \cup
  { [raises |-> FALSE, text |-> ANSWER_TEXT, chunks |-> c] :
      c \in UNION { [1..n -> Chunks] : n \in 0..MaxChunks } }

(***************************************************************************)
(* extract_sources and query_gemini.                                       *)
(***************************************************************************)
\* the raw id of a chunk: its title, else the last segment of its uri, else ''
raw_id_of(context) ==
  IF context.title # <<>> THEN context.title
  ELSE IF context.uri # <<>>
       THEN LET segs == split(context.uri, SLASH) IN segs[Len(segs)]
  ELSE <<>>

\* the citation record of one chunk; its snippet and score, which nothing but the page
\* reads, are left out
source_of(chunk) ==
  LET raw_id == raw_id_of(chunk)
      r == resolve_source_display_name(raw_id)
  IN [ filename     |-> r.display_name,
       raw_id       |-> raw_id,
       source_type  |-> r.source_type,
       date         |-> r.date,
       original_url |-> r.original_url ]

RECURSIVE extract_chunks(_)
extract_chunks(chunks) ==
  IF chunks = <<>> THEN <<>>
  ELSE (IF Head(chunks).retrieved_context THEN <<source_of(Head(chunks))>> ELSE <<>>)
         \o extract_chunks(Tail(chunks))

extract_sources(response) == extract_chunks(response.chunks)

\* a variant of store_ids without the "if s in STORES" filter: an unknown key passes
\* through as its own store name
store_ids_unfiltered(selected) ==
  { IF s \in DOMAIN STORES THEN STORES[s].store_id ELSE s : s \in selected }

\* store_ids = [STORES[s]['store_id'] for s in selected_stores if s in STORES]
store_ids(selected) == { STORES[s].store_id : s \in selected \cap DOMAIN STORES }

\* the value returned when store_ids is empty
no_store_result == [answer |-> MSG_SELECT_SOURCE, sources |-> <<>>, error |-> TRUE]

\* the generate_content request of one call
request_of(q, selected) ==
  [ model |-> "gemini-2.5-flash", contents |-> q,
    file_search_store_names |-> store_ids(selected),
    system_instruction |-> get_system_prompt(selected) ]

\* the value returned once generate_content has returned or raised; the latency, which
\* only the page's caption reads, is left out
result_of(response) ==
  IF response.raises
  THEN [answer |-> MSG_QUERY_FAILED \o response.text, sources |-> <<>>, error |-> TRUE]
  ELSE [answer |-> response.text, sources |-> extract_sources(response), error |-> FALSE]

\* one entry of the call log
call_of(q, selected, key) ==
  [ question |-> q, selected_stores |-> selected, api_key |-> key,
    returned_before |-> Len(results) ]

(***************************************************************************)
(* Grouping and sorting in main.                                           *)
(***************************************************************************)
KnownTypes == {TYPE_PENALTY, TYPE_LAW, TYPE_ANN}

of_type(sources, t) == SelectSeq(sources, LAMBDA s : s.source_type = t)

of_other_types(sources) == SelectSeq(sources, LAMBDA s : s.source_type \notin KnownTypes)

\* x put into a list sorted by date descending, behind the entries whose date is not smaller
insert_desc(sorted, x) ==
  LET ahead == { i \in 1..Len(sorted) : str_less(sorted[i].date, x.date) }
      pos == IF ahead = {} THEN Len(sorted) + 1
             ELSE CHOOSE i \in ahead : \A j \in ahead : i <= j
  IN SubSeq(sorted, 1, pos - 1) \o <<x>> \o SubSeq(sorted, pos, Len(sorted))

\* sort(key=date, reverse=True): stable, largest date first
RECURSIVE sort_by_date_desc(_)
sort_by_date_desc(list) ==
  IF list = <<>> THEN <<>>
  ELSE insert_desc(sort_by_date_desc(SubSeq(list, 1, Len(list) - 1)), list[Len(list)])

\* the four lists of the first result, in display order
group_first(sources) ==
  << sort_by_date_desc(of_type(sources, TYPE_PENALTY)),
     sort_by_date_desc(of_type(sources, TYPE_LAW)),
     sort_by_date_desc(of_type(sources, TYPE_ANN)),
     sort_by_date_desc(of_other_types(sources)) >>

\* the four lists of the retry's result, in display order
group_retry(sources) ==
  << sort_by_date_desc(of_type(sources, TYPE_PENALTY)),
     sort_by_date_desc(of_type(sources, TYPE_LAW)),
     sort_by_date_desc(of_type(sources, TYPE_ANN)),
     sort_by_date_desc(of_other_types(sources)) >>

Message(kind, text) == [kind |-> kind, text |-> text]

(***************************************************************************)
(* Inputs.                                                                 *)
(***************************************************************************)
\* GEMINI_API_KEY: not set, or set
ApiKeys == {<<>>, API_KEY_TEXT}

\* the text area at submit: empty, or a question
Questions == {<<>>, QUESTION_TEXT}

\* what render_sidebar can return: the checked keys of STORES
SidebarSelections == SUBSET DOMAIN STORES

\* what a caller of query_gemini other than main passes
DirectSelections == { {}, {"archive"}, {"archive", "penalties"} }

\* the raw ids resolve_source_display_name is called with directly
RawIds ==
  { <<>>, RAW_SHORT_P1, RAW_SHORT_P2, RAW_SHORT_P3, RAW_SHORT_X1, RAW_SHORT_E1,
    RAW_SHORT_L1, RAW_SHORT_A1, RAW_SHORT_A2, RAW_FULL_P1, RAW_NOT_MAPPED,
    RAW_FILE_ANN, RAW_FILE_PEN }

NotResolved == [called |-> FALSE, raw_id |-> <<>>, value |-> <<>>]

(***************************************************************************)
(* Init: the module has been imported up to line 127; nothing is loaded.   *)
(***************************************************************************)
Init ==
  /\ files \in FileSystems
  /\ api_key \in ApiKeys
  /\ pc = "start"
  /\ GEMINI_ID_MAPPING = EmptyDict
  /\ FILE_MAPPING = EmptyDict
  /\ load_warned = FALSE
  /\ question = <<>>
  /\ selected_stores = {}
  /\ calls = <<>>
  /\ requests = <<>>
  /\ results = <<>>
  /\ ui = <<>>
  /\ groups = <<>>
  /\ resolved = NotResolved

(***************************************************************************)
(* Actions.                                                                *)
(***************************************************************************)
\* line 128: GEMINI_ID_MAPPING, FILE_MAPPING = load_mappings()
load_mappings ==
  /\ pc = "start"
  /\ LET st == load_mappings_result(files)
     IN /\ GEMINI_ID_MAPPING' = st.gemini_id_mapping
        /\ FILE_MAPPING' = st.file_mapping
        /\ load_warned' = st.raised
  /\ pc' = "idle"
  /\ UNCHANGED <<files, api_key, question, selected_stores, calls, requests, results,
                 ui, groups, resolved>>

\* main without a credential: st.error and st.stop
main_no_key ==
  /\ pc = "idle"
  /\ api_key = <<>>
  /\ ui' = <<Message("error", MSG_NO_KEY)>>
  /\ pc' = "stopped"
  /\ UNCHANGED <<files, api_key, GEMINI_ID_MAPPING, FILE_MAPPING, load_warned, question,
                 selected_stores, calls, requests, results, groups, resolved>>

\* main with the submit button pressed, up to the first generate_content call
main_submit(q, selected) ==
  /\ pc = "idle"
  /\ api_key # <<>>
  /\ question' = q
  /\ selected_stores' = selected
  /\ IF q = <<>>
     THEN /\ pc' = "done"
          /\ UNCHANGED <<calls, requests, results, ui>>
     ELSE IF selected = {}
     THEN /\ ui' = <<Message("error", MSG_SELECT_SOURCE)>>
          /\ pc' = "done"
          /\ UNCHANGED <<calls, requests, results>>
     ELSE /\ calls' = Append(calls, call_of(q, selected, api_key))
          /\ IF store_ids(selected) = {}
             THEN /\ results' = Append(results, no_store_result)
                  /\ ui' = <<Message("error", no_store_result.answer)>>
                  /\ pc' = "done"
                  /\ UNCHANGED requests
             ELSE /\ requests' = Append(requests, request_of(q, selected))
                  /\ pc' = "awaiting_first"
                  /\ UNCHANGED <<results, ui>>
  /\ UNCHANGED <<files, api_key, GEMINI_ID_MAPPING, FILE_MAPPING, load_warned, groups,
                 resolved>>

\* a variant of first_outcome that tests the source list alone, so that a failed call
\* is retried as well
first_outcome_sources_only(result) ==
  IF result.sources # <<>> THEN "show" ELSE "retry"

\* what main does with the first result: lines 502, 521 and 561
first_outcome(result) ==
  IF result.error THEN "error"
  ELSE IF result.sources # <<>> THEN "show"
  ELSE "retry"

\* the first call returns or raises; main shows its result or starts the retry
first_call_returns(response) ==
  /\ pc = "awaiting_first"
  /\ LET result == result_of(response)
     IN /\ results' = Append(results, result)
        /\ IF first_outcome(result) = "error"
           THEN /\ ui' = <<Message("error", result.answer)>>
                /\ pc' = "done"
                /\ UNCHANGED <<calls, requests, groups>>
           ELSE IF first_outcome(result) = "show"
           THEN /\ ui' = <<Message("success", <<>>), Message("markdown", result.answer)>>
                /\ groups' = group_first(result.sources)
                /\ pc' = "done"
                /\ UNCHANGED <<calls, requests>>
           ELSE /\ ui' = <<Message("success", <<>>), Message("markdown", result.answer),
                           Message("warning", <<>>)>>
                /\ calls' = Append(calls, [call_of(question, selected_stores, api_key)
                                             EXCEPT !.returned_before = Len(results) + 1])
                \* store_ids is not empty: the first call passed the same check
                /\ requests' = Append(requests, request_of(question, selected_stores))
                /\ pc' = "awaiting_retry"
                /\ UNCHANGED groups
  /\ UNCHANGED <<files, api_key, GEMINI_ID_MAPPING, FILE_MAPPING, load_warned, question,
                 selected_stores, resolved>>

\* the retry returns or raises; main shows its result or the "no results" notice
retry_call_returns(response) ==
  /\ pc = "awaiting_retry"
  /\ LET result2 == result_of(response)
     IN /\ results' = Append(results, result2)
        /\ IF result2.sources # <<>>
           THEN /\ ui' = ui \o <<Message("success", <<>>), Message("markdown", result2.answer)>>
                /\ groups' = group_retry(result2.sources)
           ELSE /\ ui' = Append(ui, Message("info", MSG_NO_RESULTS))
                /\ UNCHANGED groups
  /\ pc' = "done"
  /\ UNCHANGED <<files, api_key, GEMINI_ID_MAPPING, FILE_MAPPING, load_warned, question,
                 selected_stores, calls, requests, resolved>>

\* query_gemini called by another caller than main, up to the generate_content call
direct_query(q, selected, key) ==
  /\ pc = "idle"
  /\ question' = q
  /\ selected_stores' = selected
  /\ calls' = Append(calls, call_of(q, selected, key))
  /\ IF store_ids(selected) = {}
     THEN /\ results' = Append(results, no_store_result)
          /\ pc' = "returned"
          /\ UNCHANGED requests
     ELSE /\ requests' = Append(requests, request_of(q, selected))
          /\ pc' = "awaiting_direct"
          /\ UNCHANGED results
  /\ UNCHANGED <<files, api_key, GEMINI_ID_MAPPING, FILE_MAPPING, load_warned, ui, groups,
                 resolved>>

\* that call returns or raises
direct_query_returns(response) ==
  /\ pc = "awaiting_direct"
  /\ results' = Append(results, result_of(response))
  /\ pc' = "returned"
  /\ UNCHANGED <<files, api_key, GEMINI_ID_MAPPING, FILE_MAPPING, load_warned, question,
                 selected_stores, calls, requests, ui, groups, resolved>>

\* a variant of resolve whose lookup is GEMINI_ID_MAPPING.setdefault(raw_id, '')
\* where the code has GEMINI_ID_MAPPING.get(raw_id, ''): a missing key is stored
resolve_with_setdefault(raw_id) ==
  /\ pc \in {"idle", "resolving"}
  /\ resolved' = [called |-> TRUE, raw_id |-> raw_id,
                  value |-> resolve_source_display_name(raw_id)]
  /\ GEMINI_ID_MAPPING' = IF raw_id \in DOMAIN GEMINI_ID_MAPPING THEN GEMINI_ID_MAPPING
                          ELSE put(GEMINI_ID_MAPPING, raw_id, <<>>)
  /\ pc' = "resolving"
  /\ UNCHANGED <<files, api_key, FILE_MAPPING, load_warned, question,
                 selected_stores, calls, requests, results, ui, groups>>

\* resolve_source_display_name called on its own, any number of times
resolve(raw_id) ==
  /\ pc \in {"idle", "resolving"}
  /\ resolved' = [called |-> TRUE, raw_id |-> raw_id,
                  value |-> resolve_source_display_name(raw_id)]
  /\ pc' = "resolving"
  /\ UNCHANGED <<files, api_key, GEMINI_ID_MAPPING, FILE_MAPPING, load_warned, question,
                 selected_stores, calls, requests, results, ui, groups>>

Next ==
  \/ load_mappings
  \/ main_no_key
  \/ \E q \in Questions, selected \in SidebarSelections : main_submit(q, selected)
  \/ \E response \in Responses : first_call_returns(response)
  \/ \E response \in Responses : retry_call_returns(response)
  \/ \E selected \in DirectSelections : direct_query(QUESTION_TEXT, selected, API_KEY_TEXT)
  \/ \E response \in Responses : direct_query_returns(response)
  \/ \E raw_id \in RawIds : resolve(raw_id)

Spec == Init /\ [][Next]_vars

(***************************************************************************)
(* The zero-citation retry.                                                *)
(***************************************************************************)
same_arguments(c, d) ==
  /\ c.question = d.question
  /\ c.selected_stores = d.selected_stores
  /\ c.api_key = d.api_key

no_results_reported == ui # <<>> /\ ui[Len(ui)] = Message("info", MSG_NO_RESULTS)

\* what a finished interaction whose first result needed the retry looks like
retried_once ==
  /\ Len(calls) = 2
  /\ Len(results) = 2
  /\ same_arguments(calls[1], calls[2])
  /\ calls[2].returned_before = 1
  /\ (results[2].sources = <<>> => no_results_reported)

\* C1 as stated: when main's first query_gemini call returns a result with zero
\* citations, exactly one further call is made, with the same arguments and after the
\* first has returned, and "no relevant results" is reported if the second result has
\* zero citations too; no interaction makes more than two calls.
C1_RetryOnZeroCitations ==
  /\ Len(calls) <= 2
  /\ (pc = "done" /\ Len(results) >= 1 /\ results[1].sources = <<>>) => retried_once

\* C1 as amended: the same for a first result that has zero citations and is not an
\* error result; a first result that is an error result (which has zero citations
\* too) is shown as an error and no further call is made.
C1_RetryOnZeroCitationsNoError ==
  /\ Len(calls) <= 2
  /\ Len(calls) = 2 =>
        /\ Len(results) >= 1
        /\ ~results[1].error
        /\ results[1].sources = <<>>
        /\ same_arguments(calls[1], calls[2])
        /\ calls[2].returned_before = 1
  /\ (pc = "done" /\ Len(results) >= 1 /\ ~results[1].error /\ results[1].sources = <<>>)
        => retried_once
  /\ (pc = "done" /\ Len(results) >= 1 /\ results[1].error)
        => Len(calls) = 1 /\ ui = <<Message("error", results[1].answer)>>

\* the retry was made and came back with zero citations too
C1_Witness ==
  /\ pc = "done"
  /\ Len(calls) = 2
  /\ ~results[1].error /\ results[1].sources = <<>>
  /\ ~results[2].error /\ results[2].sources = <<>>
  /\ no_results_reported

(***************************************************************************)
(* query_gemini without a usable collection.                               *)
(***************************************************************************)
has_store(selected) == selected \cap DOMAIN STORES # {}

\* C2: a query_gemini call whose selected-collections list is empty, or holds no key
\* of STORES, returns error = true with an empty citation list, and sends no
\* generate_content request: the requests sent are those of the other calls.
C2_NoStoreNoRequest ==
  /\ Len(requests) = Cardinality({ i \in 1..Len(calls) : has_store(calls[i].selected_stores) })
  /\ \A i \in 1..Len(calls) :
        ~has_store(calls[i].selected_stores) =>
          /\ Len(results) >= i
          /\ results[i].error
          /\ results[i].sources = <<>>

\* such a call has been made with a list that holds a key unknown to STORES
C2_Witness ==
  /\ pc = "returned"
  /\ Len(calls) = 1
  /\ calls[1].selected_stores = {"archive"}
  /\ results = <<no_store_result>>
  /\ requests = <<>>

(***************************************************************************)
(* Failures of the endpoint.                                               *)
(***************************************************************************)
is_failure(result) == result.error /\ startswith(result.answer, MSG_QUERY_FAILED)

\* C3: when generate_content raises in a query_gemini call of an interaction (the
\* first call or the retry), the call returns error = true with the failure message
\* as its answer, and main shows that message as an error.
C3_FailureShownAsError ==
  pc = "done" =>
    \A i \in 1..Len(results) :
      is_failure(results[i]) =>
        \E m \in 1..Len(ui) : ui[m] = Message("error", results[i].answer)

(***************************************************************************)
(* The resolver.                                                           *)
(***************************************************************************)
\* C4: for a raw identifier that is no key of the alias table (the empty string
\* included) resolve_source_display_name returns source-type "unknown" and an empty
\* URL; for the empty string the label is the icon and the "unknown document" text.
C4_UnmappedIsUnknown ==
  /\ (resolved.called /\ resolved.raw_id \notin DOMAIN GEMINI_ID_MAPPING) =>
        /\ resolved.value.source_type = TYPE_UNKNOWN
        /\ resolved.value.original_url = <<>>
        /\ (resolved.raw_id = <<>> =>
              resolved.value.display_name = ICON_DOC \o <<SPACE>> \o UNKNOWN_DOC)
  /\ \A i \in 1..Len(results) : \A k \in 1..Len(results[i].sources) :
        LET s == results[i].sources[k]
        IN s.raw_id \notin DOMAIN GEMINI_ID_MAPPING =>
             /\ s.source_type = TYPE_UNKNOWN
             /\ s.original_url = <<>>
             /\ (s.raw_id = <<>> => s.filename = ICON_DOC \o <<SPACE>> \o UNKNOWN_DOC)

\* the empty string has been resolved against loaded tables
C4_Witness ==
  /\ resolved.called
  /\ resolved.raw_id = <<>>
  /\ DOMAIN GEMINI_ID_MAPPING # {}
  /\ resolved.value.source_type = TYPE_UNKNOWN

\* the source-type the prefix of a document identifier stands for
type_of_prefix(doc_id) ==
  LET head == IF Len(doc_id) >= Len(PFX_PEN) THEN SubSeq(doc_id, 1, Len(PFX_PEN)) ELSE doc_id
  IN IF head = PFX_PEN THEN TYPE_PENALTY
     ELSE IF head = PFX_LAW THEN TYPE_LAW
     ELSE IF head \in {PFX_UNK, PFX_ANN} THEN TYPE_ANN
     ELSE TYPE_UNKNOWN

\* C5 as stated: for a raw identifier that is a key of the alias table the source-type
\* is one of penalty case, regulatory interpretation and announcement, the one its
\* document identifier's prefix stands for.
C5_MappedHasKnownType ==
  (resolved.called /\ resolved.raw_id \in DOMAIN GEMINI_ID_MAPPING) =>
    /\ resolved.value.source_type \in KnownTypes
    /\ resolved.value.source_type = type_of_prefix(GEMINI_ID_MAPPING[resolved.raw_id])

\* C5 as amended: for a raw identifier that is a key of the alias table and whose
\* document identifier is not empty and is a key of the document table, the source-type
\* is the one the prefix stands for (fsc_pen: penalty case, fsc_law: regulatory
\* interpretation, fsc_unk or fsc_ann: announcement) and "unknown" for any other
\* prefix; when the document identifier is empty or no key of the document table, the
\* source-type is "unknown".
C5_MappedTypeFollowsPrefix ==
  (resolved.called /\ resolved.raw_id \in DOMAIN GEMINI_ID_MAPPING) =>
    LET doc_id == GEMINI_ID_MAPPING[resolved.raw_id]
    IN IF doc_id # <<>> /\ doc_id \in DOMAIN FILE_MAPPING
       THEN resolved.value.source_type = type_of_prefix(doc_id)
       ELSE resolved.value.source_type = TYPE_UNKNOWN

\* an alias of an fsc_ann document has been resolved to an announcement
C5_Witness ==
  /\ resolved.called
  /\ resolved.raw_id = RAW_SHORT_A2
  /\ RAW_SHORT_A2 \in DOMAIN GEMINI_ID_MAPPING
  /\ GEMINI_ID_MAPPING[RAW_SHORT_A2] = DOC_ANN_1
  /\ resolved.value.source_type = TYPE_ANN

\* the institution of a template of the shape date_source_institution, where source is
\* the document's source-office code; <<>> when the template has another shape
institution_of(info) ==
  LET display_name == get(info, "display_name", <<>>)
      source == get(info, "source", <<>>)
      first == split(display_name, UNDERSCORE)[1]
      lead == first \o <<UNDERSCORE>> \o source \o <<UNDERSCORE>>
  IN IF source # <<>> /\ first # <<>> /\ startswith(display_name, lead)
     THEN SubSeq(display_name, Len(lead) + 1, Len(display_name))
     ELSE <<>>

\* C6: a penalty document whose template is date_source-office-code_institution, with
\* a source-office code that may hold the delimiter itself, resolves to the penalty
\* icon followed by date_institution.
C6_PenaltyLabelIsDateInstitution ==
  (resolved.called /\ is_mapped(resolved.raw_id)) =>
    LET doc_id == GEMINI_ID_MAPPING[resolved.raw_id]
        info == FILE_MAPPING[doc_id]
        date == split(get(info, "display_name", <<>>), UNDERSCORE)[1]
    IN (startswith(doc_id, PFX_PEN) /\ institution_of(info) # <<>>) =>
         resolved.value.display_name = label(ICON_PENALTY, date, institution_of(info))

(***************************************************************************)
(* Grouping and ordering.                                                  *)
(***************************************************************************)
is_iso_date(d) == Len(d) = DATE_LEN /\ d[5] = HYPHEN /\ d[8] = HYPHEN

bucket_types(g) ==
  IF g = 1 THEN {TYPE_PENALTY}
  ELSE IF g = 2 THEN {TYPE_LAW}
  ELSE IF g = 3 THEN {TYPE_ANN}
  ELSE {TYPE_UNKNOWN}

\* C7: main puts each citation in the bucket of its source-type, and in every bucket
\* each citation dated "unknown date" comes after all citations with an ISO date, both
\* for the first result and for the retry's.
C7_UnknownDateLast ==
  groups # <<>> =>
    \A g \in 1..4 :
      /\ \A i \in 1..Len(groups[g]) : groups[g][i].source_type \in bucket_types(g)
      /\ \A i, j \in 1..Len(groups[g]) :
            (groups[g][i].date = UNKNOWN_DATE /\ is_iso_date(groups[g][j].date)) => j < i

(***************************************************************************)
(* The load.                                                               *)
(***************************************************************************)
well_formed(file) ==
  /\ file.state = "ok"
  /\ \A i \in 1..Len(file.entries) :
        "dict" \in DOMAIN file.entries[i][2] => file.entries[i][2].dict

bad(file) == file.state # "absent" /\ ~well_formed(file)

\* the document identifiers a unified-format file names
docs_of(entries) == { entries[i][1] : i \in 1..Len(entries) }

\* C8: load_mappings never raises, and a reference file that is absent or malformed
\* costs that file's contribution only: every present, well-formed file, read before
\* or after it, contributes all of its entries, and the bad file contributes none.
C8_OnlyTheBadFileIsSkipped ==
  pc # "start" =>
    /\ well_formed(files.penalties_gemini) =>
          \A i \in 1..Len(PenaltyAliasEntries) :
            replace(PenaltyAliasEntries[i][1], FILES_PREFIX, <<>>) \in DOMAIN GEMINI_ID_MAPPING
    /\ well_formed(files.penalties_file) =>
          docs_of(PenaltyFileEntries) \subseteq DOMAIN FILE_MAPPING
    /\ well_formed(files.law_gemini) => docs_of(LawEntries) \subseteq DOMAIN FILE_MAPPING
    /\ well_formed(files.ann_gemini) => docs_of(AnnEntries) \subseteq DOMAIN FILE_MAPPING
    /\ bad(files.law_gemini) => docs_of(LawEntries) \cap DOMAIN FILE_MAPPING = {}

\* C9: after the load, no step of resolve_source_display_name, extract_sources,
\* query_gemini or main changes the alias table, the document table or the load's
\* warning flag.
C9_TablesNeverWritten ==
  [][pc # "start" =>
       /\ GEMINI_ID_MAPPING' = GEMINI_ID_MAPPING
       /\ FILE_MAPPING' = FILE_MAPPING
       /\ load_warned' = load_warned]_vars

\* unmapped ids have been resolved against loaded tables, and none was stored
C9_Witness ==
  /\ resolved.called
  /\ resolved.raw_id = RAW_NOT_MAPPED
  /\ DOMAIN GEMINI_ID_MAPPING # {}
  /\ RAW_NOT_MAPPED \notin DOMAIN GEMINI_ID_MAPPING

\* C10: for a short identifier X of the alias table, the compound identifier files/X,
\* arriving as a chunk's title, as a chunk's uri or as the resolver's argument,
\* resolves to the label, source-type, date and URL of X.
C10_CompoundResolvesAsShort ==
  LET same(value, short) ==
        LET r == resolve_source_display_name(short)
        IN /\ value.source_type = r.source_type
           /\ value.date = r.date
           /\ value.original_url = r.original_url
      compound(raw_id) ==
        /\ startswith(raw_id, FILES_PREFIX)
        /\ SubSeq(raw_id, Len(FILES_PREFIX) + 1, Len(raw_id)) \in DOMAIN GEMINI_ID_MAPPING
      short_of(raw_id) == SubSeq(raw_id, Len(FILES_PREFIX) + 1, Len(raw_id))
  IN /\ (resolved.called /\ compound(resolved.raw_id)) =>
          /\ same(resolved.value, short_of(resolved.raw_id))
          /\ resolved.value.display_name =
                resolve_source_display_name(short_of(resolved.raw_id)).display_name
     /\ \A i \in 1..Len(results) : \A k \in 1..Len(results[i].sources) :
          LET s == results[i].sources[k]
          IN compound(s.raw_id) =>
               /\ same(s, short_of(s.raw_id))
               /\ s.filename = resolve_source_display_name(short_of(s.raw_id)).display_name

\* the number of delimiter-separated segments a source-type's template is expected to have
expected_segments(doc_id) == IF startswith(doc_id, PFX_PEN) THEN 3 ELSE 2

\* C11: a mapped document whose template has fewer segments than its source-type
\* expects (fewer than 3 for a penalty case, fewer than 2 otherwise), or whose template
\* is empty, resolves to the generic label: the icon followed by type_date.
C11_ShortTemplateGetsGenericLabel ==
  (resolved.called /\ is_mapped(resolved.raw_id)) =>
    LET doc_id == GEMINI_ID_MAPPING[resolved.raw_id]
        info == FILE_MAPPING[doc_id]
        display_name == get(info, "display_name", <<>>)
        segments == IF display_name = <<>> THEN 0
                    ELSE Len(split(display_name, UNDERSCORE))
    IN segments < expected_segments(doc_id) =>
         resolved.value.display_name =
           label(source_type_of(doc_id)[2], source_type_of(doc_id)[1],
                 get(info, "date", UNKNOWN_DATE))
====
